---------------------------- MODULE Spec2Model ----------------------------
(***************************************************************************)
(* Model of the Dynamic AI Assistant service.                              *)
(*                                                                         *)
(*   backend/assistant_engine.py  AssistantEngine: system instructions,    *)
(*                                retrieval depth, context, prompt, chat   *)
(*   backend/main.py              the FastAPI handlers over the in-memory  *)
(*                                registry assistants_store and the        *)
(*                                upload directory                         *)
(*                                                                         *)
(* A Python str is a sequence of atoms.  User supplied text (messages,     *)
(* ids, file names, page contents) is a sequence of one-character atoms;   *)
(* the fixed literals of the source are abbreviated to a few atoms each,   *)
(* distinct from one another and from every character of user text.        *)
(***************************************************************************)
EXTENDS Integers, Sequences, FiniteSets, TLC

VARIABLES
    assistants_store,   \* main.py:81  id -> assistant_config
    uploads,            \* the file names present in UPLOAD_DIR (main.py:61)
    issued,             \* the ids uuid.uuid4() has produced so far
    deleted,            \* history: the ids whose delete returned 200
    resp,               \* the last request and its response
    probe,              \* the last application of an engine function
    created,            \* history: the ids whose create returned 200
    loop                \* the event loop: the requests in flight and the one running

vars == <<assistants_store, uploads, issued, deleted, resp, probe, created, loop>>

-----------------------------------------------------------------------------
(* Bounds *)

MaxFrags == 2      \* fragments concatenated into a user message
MaxCustom == 2     \* atoms in a custom-instruction string
MaxDocs == 4       \* chunks in a retrieved sequence given to _build_prompt
MaxCreates == 2    \* create requests that reach uuid.uuid4()

-----------------------------------------------------------------------------
(* Strings *)

NL == "\n"

Min(a, b) == IF a < b THEN a ELSE b

UpperLetters ==
    <<"A","B","C","D","E","F","G","H","I","J","K","L","M",
      "N","O","P","Q","R","S","T","U","V","W","X","Y","Z">>

LowerLetters ==
    <<"a","b","c","d","e","f","g","h","i","j","k","l","m",
      "n","o","p","q","r","s","t","u","v","w","x","y","z">>

LowerOf == [i \in DOMAIN UpperLetters |-> LowerLetters[i]]

ToLowerMap == [c \in {UpperLetters[i] : i \in DOMAIN UpperLetters} |->
                 LowerOf[CHOOSE i \in DOMAIN UpperLetters : UpperLetters[i] = c]]

\* str.lower() of one character
LowerChar(c) == IF c \in DOMAIN ToLowerMap THEN ToLowerMap[c] ELSE c

\* str.lower()
Lower(s) == [i \in 1..Len(s) |-> LowerChar(s[i])]

\* Python's  w in s  for strings
Contains(s, w) ==
    \E i \in 0..(Len(s) - Len(w)) : SubSeq(s, i + 1, i + Len(w)) = w

\* s.startswith(p)
StartsWith(s, p) ==
    /\ Len(p) <= Len(s)
    /\ SubSeq(s, 1, Len(p)) = p

RECURSIVE Concat(_)
\* "".join(parts)
Concat(parts) ==
    IF parts = <<>> THEN <<>> ELSE Head(parts) \o Concat(Tail(parts))

RECURSIVE Join(_, _)
\* sep.join(parts)
Join(parts, sep) ==
    IF parts = <<>> THEN <<>>
    ELSE IF Len(parts) = 1 THEN parts[1]
    ELSE parts[1] \o sep \o Join(Tail(parts), sep)

\* the sequences over S of length 0..n
SeqsUpTo(S, n) == UNION {[1..m -> S] : m \in 0..n}

-----------------------------------------------------------------------------
(* AssistantEngine: retrieval depth (assistant_engine.py:85-86) *)

Keywords ==
    << <<"h","i","g","h","e","s","t">>,
       <<"l","o","w","e","s","t">>,
       <<"b","e","s","t">>,
       <<"w","o","r","s","t">>,
       <<"m","a","x","i","m","u","m">>,
       <<"m","i","n","i","m","u","m">>,
       <<"m","o","s","t">>,
       <<"l","e","a","s","t">>,
       <<"c","o","m","p","a","r","e">>,
       <<"a","l","l">>,
       <<"w","h","i","c","h">> >>

BroadK == 30
NarrowK == 8

\* faulty variant: the message is not lower-cased before the search
IsComparisonCaseSensitive(user_message) ==
    \E n \in DOMAIN Keywords : Contains(user_message, Keywords[n])

\* any(word in user_message.lower() for word in [...])
IsComparison(user_message) ==
    LET lowered == Lower(user_message)
    IN  \E n \in DOMAIN Keywords : Contains(lowered, Keywords[n])

\* k_docs = 30 if is_comparison else 8
KDocs(user_message) ==
    IF IsComparison(user_message) THEN BroadK ELSE NarrowK

-----------------------------------------------------------------------------
(* AssistantEngine._build_system_instructions (assistant_engine.py:129-175) *)

\* the literal appended at lines 139-152
BasePolicyBlock ==
    <<NL, "CRITICAL RESPONSE RULES:", NL, "- You MUST ONLY answer ...", NL,
      NL, "RESPONSE FORMAT:", NL, "- Write like a knowledgeable expert ...">>

\* the literal appended at lines 155-159
StatisticsBlock == <<NL, "STATISTICAL ANALYSIS: Provide statistical insights ...">>

\* the literal appended at lines 162-165
AlertBlock == <<NL, "ALERT DETECTION: Watch for anomalies ...">>

\* the literal appended at lines 168-173
RecommendationBlock ==
    <<NL, "RECOMMENDATIONS & PREDICTIONS: Provide actionable recommendations ...">>

\* instructions.append(block) when the flag is set
AppendIf(instructions, flag, block) ==
    IF flag THEN Append(instructions, block) ELSE instructions

\* faulty variant: the alert block is appended before the statistics block
BuildInstructionListAlertFirst(custom_instructions, enable_statistics, enable_alerts, enable_recommendations) ==
    AppendIf(
        AppendIf(
            AppendIf(<<custom_instructions, BasePolicyBlock>>,
                     enable_alerts, AlertBlock),
            enable_statistics, StatisticsBlock),
        enable_recommendations, RecommendationBlock)

\* the list  instructions  as it stands at line 175
BuildInstructionList(custom_instructions, enable_statistics, enable_alerts, enable_recommendations) ==
    AppendIf(
        AppendIf(
            AppendIf(<<custom_instructions, BasePolicyBlock>>,
                     enable_statistics, StatisticsBlock),
            enable_alerts, AlertBlock),
        enable_recommendations, RecommendationBlock)

\* return "\n".join(instructions)
BuildSystemInstructions(custom_instructions, enable_statistics, enable_alerts, enable_recommendations) ==
    Join(BuildInstructionList(custom_instructions, enable_statistics,
                              enable_alerts, enable_recommendations),
         <<NL>>)

-----------------------------------------------------------------------------
(* AssistantEngine._build_context (assistant_engine.py:177-185) *)

RECURSIVE ContextParts(_, _)
\* the list context_parts after the loop over enumerate(documents, idx)
ContextParts(documents, idx) ==
    IF documents = <<>> THEN <<>>
    ELSE << <<"[Source ", ToString(idx), "]">>,
            Head(documents).page_content,
            <<>> >>
         \o ContextParts(Tail(documents), idx + 1)

BuildContext(documents) == Join(ContextParts(documents, 1), <<NL>>)

-----------------------------------------------------------------------------
(* AssistantEngine._build_prompt (assistant_engine.py:187-238) *)

InspectedDocs == 3

WebsiteTypes == {"website_content", "website_section", "website_paragraph"}

\* doc.metadata.get('type', '')
DocType(doc) ==
    IF "type" \in DOMAIN doc.metadata THEN doc.metadata["type"] ELSE ""

IsWebsiteDoc(doc) == DocType(doc) \in WebsiteTypes

IsStructuredDoc(doc) ==
    \/ "row_number" \in DOMAIN doc.metadata
    \/ "item_number" \in DOMAIN doc.metadata

RECURSIVE ScanDocs(_)
\* the loop of lines 199-206: the first chunk that is of either kind decides,
\* and the loop breaks there
ScanDocs(documents) ==
    IF documents = <<>> THEN "other"
    ELSE IF IsWebsiteDoc(Head(documents)) THEN "website"
    ELSE IF IsStructuredDoc(Head(documents)) THEN "structured"
    ELSE ScanDocs(Tail(documents))

\* (is_website_data, is_structured_data) after lines 195-206, as the variant
\* that lines 208-222 select
DataShape(documents) ==
    IF documents = <<>> THEN "other"
    ELSE ScanDocs(SubSeq(documents, 1, Min(InspectedDocs, Len(documents))))

NarrativeInstructions ==
    <<"Answer the user's question directly and naturally.", NL,
      "Write in clear paragraphs ...", NL,
      "Focus on providing useful information without meta-commentary.">>

StructuredInstructions ==
    <<"CRITICAL: For comparison queries (highest, lowest, best, worst, etc.):", NL,
      "1. Examine EVERY source systematically", NL, "...", NL, NL,
      "For other queries: Provide clear, direct answers based on the data.", NL,
      "If asked practical questions beyond the data, offer helpful advice.">>

GenericInstructions ==
    <<"Examine the sources carefully and provide a clear, direct answer.", NL,
      "Be helpful and informative.">>

AnsweringInstructions(documents) ==
    CASE DataShape(documents) = "website" -> NarrativeInstructions
      [] DataShape(documents) = "structured" -> StructuredInstructions
      [] OTHER -> GenericInstructions

\* the f-string of lines 224-236
BuildPrompt(system_instructions, context, user_message, documents) ==
    <<"<SYSTEM_INSTRUCTIONS>", NL>> \o system_instructions
    \o <<NL, "</SYSTEM_INSTRUCTIONS>", NL, NL, "<CONTEXT>", NL>> \o context
    \o <<NL, "</CONTEXT>", NL, NL, "<USER_QUESTION>", NL>> \o user_message
    \o <<NL, "</USER_QUESTION>", NL, NL>> \o AnsweringInstructions(documents)

-----------------------------------------------------------------------------
(* The collaborators of the engine.  backend/vector_store.py and            *)
(* backend/data_loader.py are imported by the source and are not part of   *)
(* it; the completion provider is a remote service.  Each is the set of    *)
(* outcomes its caller has to handle.                                      *)

\* the sequences without repetition over the chunks of a store, of length 0..n
Selections(store, n) ==
    {[i \in DOMAIN ix |-> store[ix[i]]] :
        ix \in {jx \in SeqsUpTo(DOMAIN store, Min(n, Len(store))) :
                   \A a, b \in DOMAIN jx : a # b => jx[a] # jx[b]}}

\* VectorStoreManager.create_vector_store(documents): the index over the
\* chunks, or an embedding failure
CreateVectorStoreOutcomes(documents) ==
    {[raised |-> TRUE, store |-> <<>>], [raised |-> FALSE, store |-> documents]}

\* VectorStoreManager.similarity_search(vector_store, query, k): at most k
\* chunks of the index in relevance order (opaque), or a search failure
SimilaritySearchOutcomes(vector_store, k) ==
    {[raised |-> TRUE, docs |-> <<>>]}
    \cup {[raised |-> FALSE, docs |-> d] : d \in Selections(vector_store, k)}

\* self.llm.invoke(prompt): the generated text, or a provider failure
LLMOutcomes ==
    {[raised |-> TRUE, content |-> <<>>],
     [raised |-> FALSE, content |-> <<"generated answer">>]}

RowDoc(n) ==
    [page_content |-> <<"n", "a", "m", "e", ":", " ", ToString(n)>>,
     metadata |-> [row_number |-> n, source |-> "csv"]]

ItemDoc(n) ==
    [page_content |-> <<"i", "d", ":", " ", ToString(n)>>,
     metadata |-> [item_number |-> n, source |-> "json"]]

PageDoc(type) ==
    [page_content |-> <<"p", "a", "g", "e">>,
     metadata |-> [type |-> type, source |-> "url"]]

\* DataLoader.load_from_csv / load_from_json / load_from_url: a chunk list,
\* possibly empty, or a load failure
LoaderOutcomes(data_source_type) ==
    {[raised |-> TRUE, documents |-> <<>>], [raised |-> FALSE, documents |-> <<>>]}
    \cup {[raised |-> FALSE, documents |-> d] :
            d \in CASE data_source_type = "csv" -> {<<RowDoc(1), RowDoc(2)>>}
                    [] data_source_type = "json" -> {<<ItemDoc(1)>>}
                    [] OTHER -> {<<PageDoc("website_section")>>}}

-----------------------------------------------------------------------------
(* AssistantEngine.create_assistant (assistant_engine.py:30-72) *)
(* The created_at and timestamp fields (datetime.utcnow()) are left out:   *)
(* no branch of the source reads them.                                     *)

NoConfig == [assistant_id |-> <<>>]

\* vs is the outcome of create_vector_store(documents) at line 44
EngineCreateAssistant(assistant_id, name, documents, custom_instructions, flags, vs) ==
    IF vs.raised
    THEN [raised |-> TRUE, config |-> NoConfig]
    ELSE [raised |-> FALSE,
          config |->
            [assistant_id |-> assistant_id,
             name |-> name,
             vector_store |-> vs.store,
             custom_instructions |-> custom_instructions,
             system_instructions |->
                BuildSystemInstructions(custom_instructions, flags[1], flags[2], flags[3]),
             documents_count |-> Len(documents),
             enable_statistics |-> flags[1],
             enable_alerts |-> flags[2],
             enable_recommendations |-> flags[3]]]

-----------------------------------------------------------------------------
(* AssistantEngine.chat (assistant_engine.py:74-127) *)

InsufficientMessage ==
    <<"I don't have enough information to answer that question based on the provided data.">>

PreviewChars == 200

\* the entries of result["relevant_documents"], lines 113-119
Preview(doc) ==
    [content |-> SubSeq(doc.page_content, 1, Min(PreviewChars, Len(doc.page_content)))
                 \o <<".", ".", ".">>,
     metadata |-> doc.metadata]

\* The calls one run of chat made: the depth it asked similarity_search for,
\* whether the search returned and what, the prompt given to llm.invoke, the
\* number of llm.invoke calls and whether one raised.
ChatTrace(k_docs, search_returned, retrieved, prompt, llm_calls, llm_failed) ==
    [k_docs |-> k_docs, search_returned |-> search_returned, retrieved |-> retrieved,
     prompt |-> prompt, llm_calls |-> llm_calls, llm_failed |-> llm_failed]

NoSources == 0 - 1

\* What one run of chat returned: raised (an exception left chat), or the
\* result dictionary's response, sources_used and relevant_documents.
ChatOutcome(raised, response, sources_used, previews, trace) ==
    [raised |-> raised, response |-> response, sources_used |-> sources_used,
     relevant_documents |-> previews, trace |-> trace]

\* faulty variant: the empty retrieval is not short-circuited
NoRelevantDocsNever(relevant_docs) == FALSE

\* if not relevant_docs  (line 94)
NoRelevantDocs(relevant_docs) == relevant_docs = <<>>

\* faulty variant: the exception is swallowed and a fallback answer returned
ChatExceptFallback(trace) == ChatOutcome(FALSE, InsufficientMessage, 0, <<>>, trace)

\* except Exception: log and raise  (lines 125-127)
ChatExcept(trace) == ChatOutcome(TRUE, <<>>, NoSources, <<>>, trace)

\* search is the outcome of similarity_search (line 88), llm the outcome of
\* llm.invoke (line 107) should chat call it
EngineChat(assistant_config, user_message, search, llm) ==
    LET system_instructions == assistant_config.system_instructions
        k_docs == KDocs(user_message)
        relevant_docs == search.docs
        context == BuildContext(relevant_docs)
        prompt == BuildPrompt(system_instructions, context, user_message, relevant_docs)
    IN  IF search.raised
        THEN ChatExcept(ChatTrace(k_docs, FALSE, <<>>, <<>>, 0, FALSE))
        ELSE IF NoRelevantDocs(relevant_docs)
        THEN ChatOutcome(FALSE, InsufficientMessage, 0, <<>>,
                         ChatTrace(k_docs, TRUE, relevant_docs, <<>>, 0, FALSE))
        ELSE IF llm.raised
        THEN ChatExcept(ChatTrace(k_docs, TRUE, relevant_docs, prompt, 1, TRUE))
        ELSE ChatOutcome(FALSE, llm.content, Len(relevant_docs),
                         [i \in DOMAIN relevant_docs |-> Preview(relevant_docs[i])],
                         ChatTrace(k_docs, TRUE, relevant_docs, prompt, 1, FALSE))

-----------------------------------------------------------------------------
(* main.py: configuration and the requests the service receives *)

MAX_FILE_SIZE_MB == 10

BytesPerMB == 1024 * 1024

\* str(uuid.uuid4()): strings of one fixed length (main.py:130)
UUIDS == {<<"a", "a">>, <<"a", "b">>, <<"b", "a">>}

None == <<>>

NoFile == [filename |-> <<>>, size |-> 0]

\* the uploads of a create request: a name and the length of the content
UploadFiles ==
    {[filename |-> <<"a", "b">>, size |-> MAX_FILE_SIZE_MB * BytesPerMB],
     [filename |-> <<"d">>, size |-> MAX_FILE_SIZE_MB * BytesPerMB + 1]}

CreateFlags == {<<FALSE, FALSE, FALSE>>, <<TRUE, FALSE, TRUE>>}

CreateRequest(type, url, flags, file) ==
    [name |-> <<"n">>, data_source_type |-> type, data_source_url |-> url,
     custom_instructions |-> <<"c">>, flags |-> flags, file |-> file]

\* the create requests: an unknown type, the url type without and with a URL,
\* the file types without a file, with a file over the limit, and with a file
CreateRequests ==
    {CreateRequest("xml", None, <<FALSE, FALSE, FALSE>>, NoFile),
     CreateRequest("url", None, <<FALSE, FALSE, FALSE>>, NoFile)}
    \cup {CreateRequest("url", <<"u">>, fl, NoFile) : fl \in CreateFlags}
    \cup {CreateRequest("csv", None, <<FALSE, FALSE, FALSE>>, f) : f \in UploadFiles}
    \cup {CreateRequest("json", <<"u">>, <<FALSE, FALSE, FALSE>>, NoFile)}

\* no create request
NoRequest == CreateRequest("", None, <<FALSE, FALSE, FALSE>>, NoFile)

ChatMessages == {<<"a", "l", "l">>, <<" ", "h", "i">>, <<" ">>}

Whitespace == {" ", NL, "\t"}

RECURSIVE LStrip(_)
LStrip(s) ==
    IF s # <<>> /\ Head(s) \in Whitespace THEN LStrip(Tail(s)) ELSE s

RECURSIVE RStrip(_)
RStrip(s) ==
    IF s # <<>> /\ s[Len(s)] \in Whitespace THEN RStrip(SubSeq(s, 1, Len(s) - 1)) ELSE s

\* str.strip()
Strip(s) == RStrip(LStrip(s))

NoChat == ChatOutcome(FALSE, <<>>, NoSources, <<>>, ChatTrace(0, FALSE, <<>>, <<>>, 0, FALSE))

\* A request and what the client got back.  engine_calls counts the calls of
\* assistant_engine made while handling it, chat is what the engine's chat did,
\* saved the file the request wrote to UPLOAD_DIR, removed the files it removed,
\* loaded the number of chunks the DataLoader returned to it, request the create
\* request, index_built whether create_vector_store returned for it.
Response(op, id, status) ==
    [op |-> op, id |-> id, status |-> status, engine_calls |-> 0, chat |-> NoChat,
     assistant_response |-> <<>>, sources_used |-> NoSources, count |-> -1,
     loaded |-> -1, saved |-> <<>>, removed |-> {}, info |-> NoConfig,
     message |-> <<>>, request |-> NoRequest, index_built |-> FALSE]

-----------------------------------------------------------------------------
(* create_assistant (main.py:102-204) *)

\* faulty variant: the size check is lost
FileTooLargeNever(size) == FALSE

\* file_size > MAX_FILE_SIZE_MB with file_size = len(content) / (1024 * 1024)
FileTooLarge(size) == size > MAX_FILE_SIZE_MB * BytesPerMB

\* os.path.join(UPLOAD_DIR, f"{assistant_id}_{file.filename}"), within UPLOAD_DIR
FilePath(assistant_id, filename) == assistant_id \o <<"_">> \o filename

\* faulty variant: an empty chunk list is let through
NoDocumentsNever(documents) == FALSE

\* if not documents  (line 170)
NoDocuments(documents) == documents = <<>>

\* What one create request did: the status returned, whether uuid4 was called,
\* the file written, the record stored if one was, the calls of the engine, and
\* the number of chunks the DataLoader returned (-1: not called, or it raised).
CreateResult(status, drew, saved, stored, config, engine_calls, loaded) ==
    [status |-> status, drew |-> drew, saved |-> saved, stored |-> stored,
     config |-> config, engine_calls |-> engine_calls, loaded |-> loaded]

\* lines 170-198, and the handlers of lines 200-204 for what raises there
CreateFromDocuments(req, assistant_id, saved, load, vs) ==
    IF load.raised
    THEN CreateResult(500, TRUE, saved, FALSE, NoConfig, 0, -1)
    ELSE IF NoDocuments(load.documents)
    THEN CreateResult(400, TRUE, saved, FALSE, NoConfig, 0, Len(load.documents))
    ELSE LET made == EngineCreateAssistant(assistant_id, req.name, load.documents,
                                           req.custom_instructions, req.flags, vs)
         IN  IF made.raised
             THEN CreateResult(500, TRUE, saved, FALSE, NoConfig, 1, Len(load.documents))
             ELSE CreateResult(200, TRUE, saved, TRUE, made.config, 1, Len(load.documents))

\* lines 122-168: write_ok is whether open/write of the upload succeeded, load
\* the outcome of the DataLoader call, vs of create_vector_store
CreateOutcome(req, assistant_id, write_ok, load, vs) ==
    IF req.data_source_type \notin {"csv", "json", "url"}
    THEN CreateResult(400, FALSE, <<>>, FALSE, NoConfig, 0, -1)
    ELSE IF req.data_source_type = "url"
    THEN IF req.data_source_url = None
         THEN CreateResult(400, TRUE, <<>>, FALSE, NoConfig, 0, -1)
         ELSE CreateFromDocuments(req, assistant_id, <<>>, load, vs)
    ELSE IF req.file = NoFile
    THEN CreateResult(400, TRUE, <<>>, FALSE, NoConfig, 0, -1)
    ELSE IF FileTooLarge(req.file.size)
    THEN CreateResult(400, TRUE, <<>>, FALSE, NoConfig, 0, -1)
    ELSE IF ~write_ok
    THEN CreateResult(500, TRUE, <<>>, FALSE, NoConfig, 0, -1)
    ELSE CreateFromDocuments(req, assistant_id,
                             FilePath(assistant_id, req.file.filename), load, vs)

\* whether the request gets as far as line 130, as far as writing its upload
\* (line 159), and as far as the DataLoader call (lines 140, 166, 168)
ReachesUuid(req) == req.data_source_type \in {"csv", "json", "url"}

ReachesWrite(req) ==
    /\ req.data_source_type \in {"csv", "json"}
    /\ req.file # NoFile
    /\ ~FileTooLarge(req.file.size)

ReachesLoad(req, write_ok) ==
    \/ req.data_source_type = "url" /\ req.data_source_url # None
    \/ ReachesWrite(req) /\ write_ok

CreateAssistant ==
    \E req \in CreateRequests :
    \E assistant_id \in IF ReachesUuid(req) THEN UUIDS \ issued ELSE {None} :
    \E write_ok \in IF ReachesWrite(req) THEN BOOLEAN ELSE {TRUE} :
    \E load \in IF ReachesLoad(req, write_ok)
                THEN LoaderOutcomes(req.data_source_type)
                ELSE {[raised |-> TRUE, documents |-> <<>>]} :
    \E vs \in IF load.raised
              THEN {[raised |-> TRUE, store |-> <<>>]}
              ELSE CreateVectorStoreOutcomes(load.documents) :
        LET out == CreateOutcome(req, assistant_id, write_ok, load, vs) IN
        /\ out.drew => Cardinality(issued) < MaxCreates
        /\ issued' = IF out.drew THEN issued \cup {assistant_id} ELSE issued
        /\ uploads' = IF out.saved # <<>> THEN uploads \cup {out.saved} ELSE uploads
        /\ assistants_store' =
             IF out.stored
             THEN [i \in DOMAIN assistants_store \cup {assistant_id} |->
                     IF i = assistant_id THEN out.config ELSE assistants_store[i]]
             ELSE assistants_store
        /\ resp' = [Response("create", IF out.stored THEN assistant_id ELSE None, out.status)
                      EXCEPT !.engine_calls = out.engine_calls,
                             !.saved = out.saved,
                             !.loaded = out.loaded,
                             !.request = req,
                             !.index_built = (out.engine_calls = 1 /\ ~vs.raised)]
        /\ created' = IF out.stored THEN created \cup {assistant_id} ELSE created
        /\ UNCHANGED <<deleted, probe, loop>>

-----------------------------------------------------------------------------
(* chat_with_assistant (main.py:207-242) *)

\* ChatRequest.validate_message (models.py:55-60): the message is rejected when
\* it is only whitespace
MessageRejected(message) == Strip(message) = <<>>

\* lines 230-242: the ChatResponse built from the engine's result, or the 500
\* the handler raises for what the engine raised
ChatReply(assistant_id, message, out) ==
    IF out.raised
    THEN [Response("chat", assistant_id, 500)
            EXCEPT !.engine_calls = 1, !.chat = out, !.message = message]
    ELSE [Response("chat", assistant_id, 200)
            EXCEPT !.engine_calls = 1, !.chat = out, !.message = message,
                   !.assistant_response = out.response,
                   !.sources_used = out.sources_used]

ChatWithAssistant ==
    \E assistant_id \in UUIDS, raw \in ChatMessages :
        /\ IF MessageRejected(raw)
           THEN resp' = Response("chat", assistant_id, 422)
           ELSE LET message == Strip(raw) IN
                IF assistant_id \notin DOMAIN assistants_store
                THEN resp' = [Response("chat", assistant_id, 404) EXCEPT !.message = message]
                ELSE LET assistant_config == assistants_store[assistant_id] IN
                     \E search \in SimilaritySearchOutcomes(assistant_config.vector_store,
                                                            KDocs(message)) :
                     \E llm \in IF search.raised
                                THEN {[raised |-> TRUE, content |-> <<>>]}
                                ELSE LLMOutcomes :
                        resp' = ChatReply(assistant_id, message,
                                          EngineChat(assistant_config, message, search, llm))
        /\ UNCHANGED <<assistants_store, uploads, issued, deleted, probe, created, loop>>

-----------------------------------------------------------------------------
(* get_assistant_info (main.py:245-270), list_assistants (main.py:273-291) *)

GetAssistantInfo ==
    \E assistant_id \in UUIDS :
        /\ resp' = IF assistant_id \notin DOMAIN assistants_store
                   THEN Response("info", assistant_id, 404)
                   ELSE [Response("info", assistant_id, 200)
                           EXCEPT !.info = assistants_store[assistant_id]]
        /\ UNCHANGED <<assistants_store, uploads, issued, deleted, probe, created, loop>>

ListAssistants ==
    /\ resp' = [Response("list", <<>>, 200)
                  EXCEPT !.count = Cardinality(DOMAIN assistants_store)]
    /\ UNCHANGED <<assistants_store, uploads, issued, deleted, probe, created, loop>>

-----------------------------------------------------------------------------
(* delete_assistant (main.py:294-317) *)

\* faulty variant: every file of the directory is taken for the assistant's
FileMatchesAny(file, assistant_id) == TRUE

\* file.startswith(assistant_id)  (line 306)
FileMatches(file, assistant_id) == StartsWith(file, assistant_id)

\* faulty variant: the existence check of line 298 is lost
DeleteNotFoundNever(assistant_id) == FALSE

\* if assistant_id not in assistants_store  (line 298)
DeleteNotFound(assistant_id) == assistant_id \notin DOMAIN assistants_store

\* The record is removed first (line 302); then the files that match are
\* removed one by one (lines 305-307).  os.remove may raise: the files removed
\* before it stay removed, the others stay, and the handler answers 500.
DeleteAssistant ==
    \E assistant_id \in UUIDS :
        IF DeleteNotFound(assistant_id)
        THEN /\ resp' = Response("delete", assistant_id, 404)
             /\ UNCHANGED <<assistants_store, uploads, issued, deleted, probe, created, loop>>
        ELSE LET matching == {f \in uploads : FileMatches(f, assistant_id)} IN
             \E removed \in SUBSET matching :
                /\ assistants_store' =
                     [i \in DOMAIN assistants_store \ {assistant_id} |-> assistants_store[i]]
                /\ uploads' = uploads \ removed
                /\ deleted' = IF removed = matching
                              THEN deleted \cup {assistant_id} ELSE deleted
                /\ resp' = [Response("delete", assistant_id,
                                     IF removed = matching THEN 200 ELSE 500)
                              EXCEPT !.removed = removed]
                /\ UNCHANGED <<issued, probe, created, loop>>

-----------------------------------------------------------------------------
(* The service *)

NoProbe ==
    [op |-> "none", done |-> FALSE, message |-> <<>>, k_docs |-> 0,
     custom_instructions |-> <<>>,
     flags |-> <<FALSE, FALSE, FALSE>>, system_instructions |-> <<>>,
     documents |-> <<>>, shape |-> "", prompt |-> <<>>]

\* no request in flight, no handler running
NoLoop == [tasks |-> <<>>, running |-> 0]

Init ==
    /\ assistants_store = [i \in {} |-> NoConfig]
    /\ uploads = {}
    /\ issued = {}
    /\ deleted = {}
    /\ resp = Response("none", <<>>, 0)
    /\ probe = NoProbe
    /\ created = {}
    /\ loop = NoLoop

Next ==
    \/ CreateAssistant
    \/ ChatWithAssistant
    \/ GetAssistantInfo
    \/ ListAssistants
    \/ DeleteAssistant

Spec == Init /\ [][Next]_vars

-----------------------------------------------------------------------------
(* The engine's functions on their own: each step applies one of them to   *)
(* inputs drawn from the sets below and records what it returned.          *)

\* pieces of user messages: the keywords whole and in parts, in both cases,
\* and text that holds none
Fragments ==
    {<<"h", "i", "g", "h">>, <<"e", "s", "t">>, <<"L", "o", "w">>, <<"b">>,
     <<"w", "o", "r">>, <<"s", "t">>, <<"m", "a", "x", "i">>, <<"m", "i", "n", "i">>,
     <<"M", "U", "M">>, <<"m", "o">>, <<"l", "e", "a">>, <<"c", "o", "m", "p">>,
     <<"A", "r", "e">>, <<"A", "L", "L">>, <<"a", "l">>, <<"l">>, <<"W", "h">>,
     <<"i", "c", "h">>, <<" ">>, <<"w", "h", "o">>, <<"x">>}

\* the messages of up to n fragments
Messages(n) == {Concat(fs) : fs \in SeqsUpTo(Fragments, n)}

\* custom instructions: any text, the text of an optional block included
CustomAtoms == {"c", NL, StatisticsBlock[2]}

\* the custom instructions of up to n atoms
Customs(n) == SeqsUpTo(CustomAtoms, n)

Flags == BOOLEAN \X BOOLEAN \X BOOLEAN

\* the metadata a retrieved chunk may carry
ProbeMetadata ==
    {[type |-> "website_content"], [type |-> "website_section"],
     [type |-> "website_paragraph"], [type |-> "text"], [source |-> "s"],
     [row_number |-> 1], [item_number |-> 1],
     [type |-> "website_section", row_number |-> 1]}

ProbeDocs == {[page_content |-> <<"t">>, metadata |-> md] : md \in ProbeMetadata}

\* the inputs of one application: messages of up to nf fragments, custom
\* instructions of up to nc atoms, retrieved sequences of up to nd chunks
ProbeInputs(nf, nc, nd) ==
    {[NoProbe EXCEPT !.op = "k_docs", !.message = m] : m \in Messages(nf)}
    \cup {[NoProbe EXCEPT !.op = "system_instructions",
                          !.custom_instructions = c, !.flags = f] :
            c \in Customs(nc), f \in Flags}
    \cup {[NoProbe EXCEPT !.op = "prompt", !.message = m, !.documents = d] :
            m \in {<<"a", "l", "l">>}, d \in SeqsUpTo(ProbeDocs, nd)}

InitEngine ==
    /\ assistants_store = [i \in {} |-> NoConfig]
    /\ uploads = {}
    /\ issued = {}
    /\ deleted = {}
    /\ resp = Response("none", <<>>, 0)
    /\ probe \in ProbeInputs(MaxFrags, MaxCustom, MaxDocs)
    /\ created = {}
    /\ loop = NoLoop

ProbeKDocs ==
    /\ probe.op = "k_docs" /\ ~probe.done
    /\ probe' = [probe EXCEPT !.done = TRUE, !.k_docs = KDocs(probe.message)]
    /\ UNCHANGED <<assistants_store, uploads, issued, deleted, resp, created, loop>>

ProbeSystemInstructions ==
    /\ probe.op = "system_instructions" /\ ~probe.done
    /\ probe' = [probe EXCEPT
                    !.done = TRUE,
                    !.system_instructions =
                        BuildSystemInstructions(probe.custom_instructions, probe.flags[1],
                                                probe.flags[2], probe.flags[3])]
    /\ UNCHANGED <<assistants_store, uploads, issued, deleted, resp, created, loop>>

ProbePrompt ==
    /\ probe.op = "prompt" /\ ~probe.done
    /\ probe' = [probe EXCEPT
                    !.done = TRUE,
                    !.shape = DataShape(probe.documents),
                    !.prompt = BuildPrompt(<<"c">>, BuildContext(probe.documents),
                                           probe.message, probe.documents)]
    /\ UNCHANGED <<assistants_store, uploads, issued, deleted, resp, created, loop>>

NextEngine ==
    \/ ProbeKDocs
    \/ ProbeSystemInstructions
    \/ ProbePrompt

SpecEngine == InitEngine /\ [][NextEngine]_vars

-----------------------------------------------------------------------------
(* C1 *)

\* the message in upper case (str.upper() over the ASCII letters)
ToUpperMap == [c \in {LowerLetters[i] : i \in DOMAIN LowerLetters} |->
                 UpperLetters[CHOOSE i \in DOMAIN LowerLetters : LowerLetters[i] = c]]

UpperChar(c) == IF c \in DOMAIN ToUpperMap THEN ToUpperMap[c] ELSE c

Upper(s) == [i \in 1..Len(s) |-> UpperChar(s[i])]

\* the keyword occurs in the message at offset i, letter case apart
OccursAt(user_message, word, i) ==
    /\ i + Len(word) <= Len(user_message)
    /\ \A j \in 1..Len(word) : LowerChar(user_message[i + j]) = word[j]

HasKeyword(user_message) ==
    \E n \in DOMAIN Keywords, i \in 0..Len(user_message) :
        OccursAt(user_message, Keywords[n], i)

\* C1: chat requests depth 30 exactly for the messages that hold one of the
\* eleven keywords, letter case apart, and depth 8 for every other message;
\* the message in upper case and in lower case gets the same depth.
C1_DepthByKeyword ==
    probe.op = "k_docs" /\ probe.done =>
        /\ Len(Keywords) = 11
        /\ probe.k_docs \in {8, 30}
        /\ probe.k_docs = 30 <=> HasKeyword(probe.message)
        /\ KDocs(Upper(probe.message)) = probe.k_docs
        /\ KDocs(Lower(probe.message)) = probe.k_docs

\* a message that holds a keyword only when lower-cased was given depth 30
C1_Witness ==
    /\ probe.op = "k_docs" /\ probe.done
    /\ probe.k_docs = 30
    /\ probe.message = <<"W", "h", "i", "c", "h">>

-----------------------------------------------------------------------------
(* C3 *)

\* the text a flag contributes to the system instructions
Optional(flag, block) == IF flag THEN <<NL>> \o block ELSE <<>>

\* C3: the system instructions are the custom instructions, then the base
\* policy block, then the statistics, alert and recommendation blocks in that
\* order, each present exactly when its flag is set; with a flag turned on the
\* result is the result without it plus that block, everything else in place.
C3_FlagMonotonicity ==
    probe.op = "system_instructions" /\ probe.done =>
        LET c == probe.custom_instructions
            f == probe.flags
            base == BuildSystemInstructions(c, FALSE, FALSE, FALSE)
        IN  /\ base = c \o <<NL>> \o BasePolicyBlock
            /\ probe.system_instructions =
                 base \o Optional(f[1], StatisticsBlock) \o Optional(f[2], AlertBlock)
                      \o Optional(f[3], RecommendationBlock)
            /\ f[1] => probe.system_instructions =
                         base \o <<NL>> \o StatisticsBlock
                         \o SubSeq(BuildSystemInstructions(c, FALSE, f[2], f[3]),
                                   Len(base) + 1,
                                   Len(BuildSystemInstructions(c, FALSE, f[2], f[3])))
            /\ f[2] => probe.system_instructions =
                         BuildSystemInstructions(c, f[1], FALSE, FALSE)
                         \o <<NL>> \o AlertBlock \o Optional(f[3], RecommendationBlock)
            /\ f[3] => probe.system_instructions =
                         BuildSystemInstructions(c, f[1], f[2], FALSE)
                         \o <<NL>> \o RecommendationBlock

\* statistics and alerts on, recommendations off, for custom instructions that
\* themselves hold the text of the statistics block
C3_Witness ==
    /\ probe.op = "system_instructions" /\ probe.done
    /\ probe.flags = <<TRUE, TRUE, FALSE>>
    /\ probe.custom_instructions = <<StatisticsBlock[2], "c">>
    /\ Len(probe.system_instructions) = 2 + 1 + Len(BasePolicyBlock) + 3 + 3

-----------------------------------------------------------------------------
(* C4 *)

Inspected(documents) == SubSeq(documents, 1, Min(3, Len(documents)))

LastOf(text) == text[Len(text)]

\* C4: the narrative variant whenever any of the first three chunks is
\* page-derived, whatever the others carry and in whatever order; else the
\* structured variant when any of them has a row_number or item_number key;
\* else the generic variant.
C4_AnyWebsiteFirst ==
    probe.op = "prompt" /\ probe.done =>
        LET d == Inspected(probe.documents)
            expected ==
                IF \E i \in DOMAIN d : IsWebsiteDoc(d[i]) THEN "website"
                ELSE IF \E i \in DOMAIN d : IsStructuredDoc(d[i]) THEN "structured"
                ELSE "other"
        IN  /\ probe.shape = expected
            /\ LastOf(probe.prompt) =
                 CASE expected = "website" -> LastOf(NarrativeInstructions)
                   [] expected = "structured" -> LastOf(StructuredInstructions)
                   [] OTHER -> LastOf(GenericInstructions)

-----------------------------------------------------------------------------
(* C2 *)

\* C2: a chat whose similarity search returned no chunks answers with the
\* fixed insufficient-information message and sources_used = 0 and calls
\* llm.invoke not at all; llm.invoke is called only after a search that
\* returned at least one chunk.
C2_ZeroRetrievalShortCircuit ==
    resp.op = "chat" /\ resp.engine_calls = 1 =>
        LET t == resp.chat.trace IN
        /\ t.search_returned /\ t.retrieved = <<>> =>
             /\ resp.status = 200
             /\ resp.assistant_response = InsufficientMessage
             /\ resp.sources_used = 0
             /\ t.llm_calls = 0
        /\ t.llm_calls > 0 => t.search_returned /\ Len(t.retrieved) >= 1

\* a chat with an existing assistant whose search returned the empty list
C2_Witness ==
    /\ resp.op = "chat" /\ resp.status = 200
    /\ resp.id \in DOMAIN assistants_store
    /\ resp.chat.trace.search_returned
    /\ resp.chat.trace.retrieved = <<>>
    /\ resp.chat.trace.llm_calls = 0
    /\ resp.sources_used = 0

-----------------------------------------------------------------------------
(* C5 *)

\* C5: an id whose delete succeeded is not in the registry and never returns
\* to it, and every later chat, info or delete request for it that reaches its
\* handler is answered 404 without a call of the engine.
C5_DeletedStaysGone ==
    [][\A id \in deleted' :
          /\ id \notin DOMAIN assistants_store'
          /\ (/\ id \in deleted
              /\ resp'.id = id
              /\ resp'.op \in {"chat", "info", "delete"}
              /\ resp'.status # 422)
             => resp'.status = 404 /\ resp'.engine_calls = 0]_vars

\* a chat request for a deleted id, answered 404, while another assistant is
\* in the registry
C5_Witness ==
    /\ resp.op = "chat" /\ resp.id \in deleted
    /\ resp.status = 404 /\ resp.engine_calls = 0
    /\ DOMAIN assistants_store # {}

-----------------------------------------------------------------------------
(* C6 *)

\* C6: every record of the registry was built from at least one chunk, and a
\* create request whose loader returned no chunks is answered with an error
\* and leaves the registry as it was.
C6_RecordsHaveChunks ==
    [][/\ \A id \in DOMAIN assistants_store' :
             /\ assistants_store'[id].documents_count >= 1
             /\ Len(assistants_store'[id].vector_store) >= 1
       /\ resp'.op = "create" /\ resp'.loaded = 0 =>
             /\ resp'.status = 400
             /\ assistants_store' = assistants_store]_vars

\* a create whose loader returned no chunks was rejected, with a record in
\* the registry
C6_Witness ==
    /\ resp.op = "create" /\ resp.loaded = 0 /\ resp.status = 400
    /\ \E id \in DOMAIN assistants_store : assistants_store[id].documents_count = 2

-----------------------------------------------------------------------------
(* C7 *)

\* C7: llm.invoke is called at most once in a chat request, and when it fails
\* the engine raises, the handler answers 500, and the request produces no
\* response text and no sources_used.
C7_CompletionFailureSurfaces ==
    resp.op = "chat" =>
        /\ resp.chat.trace.llm_calls <= 1
        /\ resp.chat.trace.llm_failed =>
             /\ resp.chat.raised
             /\ resp.status = 500
             /\ resp.assistant_response = <<>>
             /\ resp.sources_used = NoSources
             /\ resp.chat.relevant_documents = <<>>

\* a chat whose one call of llm.invoke failed
C7_Witness ==
    /\ resp.op = "chat" /\ resp.status = 500
    /\ resp.chat.trace.llm_failed
    /\ resp.chat.trace.llm_calls = 1
    /\ Len(resp.chat.trace.retrieved) = 2

-----------------------------------------------------------------------------
(* C8 *)

\* the paths a create request that drew this id can have written
SavedFor(assistant_id) ==
    {FilePath(assistant_id, f.filename) : f \in UploadFiles}

\* C8: a successful delete leaves no file saved for the deleted id in the
\* upload directory and leaves every other file there.
C8_DeleteRemovesOwnFilesOnly ==
    [][resp'.op = "delete" /\ resp'.status = 200 =>
          /\ uploads' \cap SavedFor(resp'.id) = {}
          /\ uploads' = uploads \ SavedFor(resp'.id)]_vars

\* a successful delete removed the assistant's file and another assistant's
\* file is still there
C8_Witness ==
    /\ resp.op = "delete" /\ resp.status = 200
    /\ resp.removed = {FilePath(resp.id, <<"a", "b">>)}
    /\ \E id \in DOMAIN assistants_store : FilePath(id, <<"a", "b">>) \in uploads

-----------------------------------------------------------------------------
(* C10 *)

\* C10: every file of the upload directory belongs to an assistant that is
\* in the registry.
C10_FilesBelongToRegistry ==
    \A f \in uploads : \E id \in DOMAIN assistants_store : f \in SavedFor(id)

-----------------------------------------------------------------------------
(* C11 *)

\* the create requests that the input checks of lines 126, 136, 143 and 151
\* are there to reject
BadInput(req) ==
    \/ req.data_source_type \notin {"csv", "json", "url"}
    \/ req.data_source_type = "url" /\ req.data_source_url = None
    \/ req.data_source_type \in {"csv", "json"} /\ req.file = NoFile
    \/ /\ req.data_source_type \in {"csv", "json"}
       /\ req.file # NoFile
       /\ req.file.size > 10 * 1024 * 1024

\* C11: a create request that ends in an error leaves the registry as it was;
\* a request with a bad input is answered 400 with no file written and no
\* record stored; a record is stored only by a request whose loading and
\* index building both succeeded.
C11_CreateChecksBeforeEffects ==
    [][resp'.op = "create" =>
          /\ resp'.status # 200 => assistants_store' = assistants_store
          /\ BadInput(resp'.request) =>
                /\ resp'.status = 400
                /\ uploads' = uploads
                /\ resp'.saved = <<>>
                /\ assistants_store' = assistants_store
          /\ assistants_store' # assistants_store =>
                /\ resp'.status = 200
                /\ resp'.loaded >= 1
                /\ resp'.index_built
                /\ DOMAIN assistants_store' = DOMAIN assistants_store \cup {resp'.id}
                /\ \A id \in DOMAIN assistants_store :
                      assistants_store'[id] = assistants_store[id]]_vars

\* a file over the size limit was rejected with 400 while the registry holds
\* an assistant and the directory its file
C11_Witness ==
    /\ resp.op = "create" /\ resp.status = 400
    /\ resp.request.file # NoFile
    /\ resp.request.file.size > 10 * 1024 * 1024
    /\ DOMAIN assistants_store # {}
    /\ Cardinality(uploads) = 1

-----------------------------------------------------------------------------
(* C12 *)

\* C12: a delete request changes the registry exactly when it answers 200: a
\* delete answered 404 or 500 leaves the registry as it was, and a delete
\* answered 200 has removed the record of its id.
C12_DeleteErrorLeavesRegistry ==
    [][resp'.op = "delete" =>
          /\ resp'.status \in {404, 500} => assistants_store' = assistants_store
          /\ resp'.status = 200 =>
                /\ resp'.id \in DOMAIN assistants_store
                /\ resp'.id \notin DOMAIN assistants_store']_vars

-----------------------------------------------------------------------------
(* Concurrent requests.  uvicorn.run(app) (main.py:335-337) serves the     *)
(* `async def` handlers on one event loop: a handler that has been started *)
(* runs until its next await before any other handler runs.                *)
(* delete_assistant (294-317) and chat_with_assistant (207-242) contain no *)
(* await, the engine's chat being an ordinary call.  Each is written here  *)
(* as its existence check followed by the rest of its body, and loop.running *)
(* holds the request whose handler the loop is inside.                     *)

MaxRequests == 3

\* faulty variant: every handler awaits right after its existence check
YieldsAfterCheckAlways(op) == TRUE

\* whether the handler hands control back to the loop between its existence
\* check and its use of the record: no await at main.py:219-225 or 298-302
YieldsAfterCheck(op) == FALSE

\* the messages that pass ChatRequest.validate_message, as the handler gets them
ValidMessages == {Strip(raw) : raw \in {m \in ChatMessages : ~MessageRejected(m)}}

\* a request that has arrived and whose handler has not been started
Task(op, assistant_id, message) ==
    [op |-> op, id |-> assistant_id, message |-> message, pc |-> "pending",
     status |-> 0, key_error |-> FALSE, used |-> NoConfig]

Tasks == loop.tasks

\* the loop is free to start, or to resume, the handler of request i
MayRun(i) == loop.running = 0 \/ loop.running = i

\* the handler of request i has answered
Answer(i, status, key_error, used) ==
    [tasks |-> [Tasks EXCEPT ![i] = [@ EXCEPT !.pc = "done", !.status = status,
                                                !.key_error = key_error,
                                                !.used = used]],
     running |-> 0]

\* the handler of request i has passed its existence check
PassCheck(i) ==
    [tasks |-> [Tasks EXCEPT ![i] = [@ EXCEPT !.pc = "checked"]],
     running |-> IF YieldsAfterCheck(Tasks[i].op) THEN 0 ELSE i]

\* the registry after one successful csv create: the state the server is in
\* when the concurrent requests arrive
InitServing ==
    \E assistant_id \in UUIDS :
    \E req \in {r \in CreateRequests : /\ r.data_source_type = "csv"
                                       /\ r.file # NoFile
                                       /\ ~FileTooLarge(r.file.size)} :
    \E load \in {l \in LoaderOutcomes("csv") : ~l.raised /\ l.documents # <<>>} :
    \E vs \in {v \in CreateVectorStoreOutcomes(load.documents) : ~v.raised} :
        LET out == CreateOutcome(req, assistant_id, TRUE, load, vs) IN
        /\ assistants_store = [i \in {assistant_id} |-> out.config]
        /\ uploads = {out.saved}
        /\ issued = {assistant_id}
        /\ created = {assistant_id}
        /\ deleted = {}
        /\ resp = Response("none", <<>>, 0)
        /\ probe = NoProbe
        /\ loop = NoLoop

\* the ids clients ask for: the ids they were given, and one they were not
RequestedIds == created \cup {CHOOSE u \in UUIDS : u \notin created}

\* a client sends a delete or a (validated) chat request
SubmitRequest ==
    /\ Len(Tasks) < MaxRequests
    /\ \E assistant_id \in RequestedIds :
       \E t \in {Task("delete", assistant_id, <<>>)}
                \cup {Task("chat", assistant_id, m) : m \in ValidMessages} :
          loop' = [loop EXCEPT !.tasks = Append(Tasks, t)]
    /\ UNCHANGED <<assistants_store, uploads, issued, deleted, resp, probe, created>>

\* delete_assistant lines 298-299
DeleteCheck ==
    \E i \in DOMAIN Tasks :
        /\ Tasks[i].op = "delete" /\ Tasks[i].pc = "pending"
        /\ loop.running = 0
        /\ loop' = IF DeleteNotFound(Tasks[i].id)
                   THEN Answer(i, 404, FALSE, NoConfig)
                   ELSE PassCheck(i)
        /\ UNCHANGED <<assistants_store, uploads, issued, deleted, resp, probe, created>>

\* delete_assistant lines 302-317: `del` raises KeyError on a missing id,
\* which the except clause of line 313 turns into a 500
DeleteRemove ==
    \E i \in DOMAIN Tasks :
        /\ Tasks[i].op = "delete" /\ Tasks[i].pc = "checked"
        /\ MayRun(i)
        /\ LET assistant_id == Tasks[i].id IN
           IF assistant_id \notin DOMAIN assistants_store
           THEN /\ loop' = Answer(i, 500, TRUE, NoConfig)
                /\ UNCHANGED <<assistants_store, uploads, deleted>>
           ELSE LET matching == {f \in uploads : FileMatches(f, assistant_id)} IN
                \E removed \in SUBSET matching :
                   /\ assistants_store' = [j \in DOMAIN assistants_store \ {assistant_id} |->
                                              assistants_store[j]]
                   /\ uploads' = uploads \ removed
                   /\ deleted' = IF removed = matching
                                 THEN deleted \cup {assistant_id} ELSE deleted
                   /\ loop' = Answer(i, IF removed = matching THEN 200 ELSE 500, FALSE,
                                     assistants_store[assistant_id])
        /\ UNCHANGED <<issued, resp, probe, created>>

\* chat_with_assistant lines 219-220
ChatCheck ==
    \E i \in DOMAIN Tasks :
        /\ Tasks[i].op = "chat" /\ Tasks[i].pc = "pending"
        /\ loop.running = 0
        /\ loop' = IF Tasks[i].id \notin DOMAIN assistants_store
                   THEN Answer(i, 404, FALSE, NoConfig)
                   ELSE PassCheck(i)
        /\ UNCHANGED <<assistants_store, uploads, issued, deleted, resp, probe, created>>

\* chat_with_assistant lines 222-242: the lookup of line 222 raises KeyError
\* on a missing id, which the except clause of line 238 turns into a 500
ChatRun ==
    \E i \in DOMAIN Tasks :
        /\ Tasks[i].op = "chat" /\ Tasks[i].pc = "checked"
        /\ MayRun(i)
        /\ LET assistant_id == Tasks[i].id IN
           IF assistant_id \notin DOMAIN assistants_store
           THEN loop' = Answer(i, 500, TRUE, NoConfig)
           ELSE LET assistant_config == assistants_store[assistant_id] IN
                \E search \in SimilaritySearchOutcomes(assistant_config.vector_store,
                                                       KDocs(Tasks[i].message)) :
                \E llm \in IF search.raised
                           THEN {[raised |-> TRUE, content |-> <<>>]}
                           ELSE LLMOutcomes :
                   loop' = Answer(i, ChatReply(assistant_id, Tasks[i].message,
                                               EngineChat(assistant_config, Tasks[i].message,
                                                          search, llm)).status,
                                  FALSE, assistant_config)
        /\ UNCHANGED <<assistants_store, uploads, issued, deleted, resp, probe, created>>

NextServing ==
    \/ SubmitRequest
    \/ DeleteCheck
    \/ DeleteRemove
    \/ ChatCheck
    \/ ChatRun

SpecServing == InitServing /\ [][NextServing]_vars

-----------------------------------------------------------------------------
(* C13 *)

\* the requests of one kind for one id that have been answered
Answered(op, assistant_id) ==
    {i \in DOMAIN Tasks : /\ Tasks[i].op = op /\ Tasks[i].id = assistant_id
                          /\ Tasks[i].pc = "done"}

\* a chat request that passed the existence check and has been answered used
\* the record of its id and met no missing key
ChatCompletesOnRecord ==
    \A i \in DOMAIN Tasks :
        (Tasks[i].op = "chat" /\ Tasks[i].pc = "done" /\ Tasks[i].status # 404) =>
            /\ ~Tasks[i].key_error
            /\ Tasks[i].status \in {200, 500}
            /\ Tasks[i].used # NoConfig
            /\ Tasks[i].used.assistant_id = Tasks[i].id

\* C13: under every interleaving the loop allows, two answered delete requests
\* for the same created id end with exactly one 200 and one 404, no delete
\* meets a missing key, and a chat request that passed the existence check
\* completes against the record of its id.
C13_DeleteRaceOneSuccess ==
    /\ \A assistant_id \in created :
          LET D == Answered("delete", assistant_id) IN
          Cardinality(D) >= 2 =>
             /\ Cardinality({i \in D : Tasks[i].status = 200}) = 1
             /\ \A i \in D : Tasks[i].status \in {200, 404}
    /\ \A i \in DOMAIN Tasks : ~Tasks[i].key_error
    /\ ChatCompletesOnRecord

\* what does hold under every interleaving: of the answered deletes for a
\* created id exactly one removed the record (answered 200, or 500 when the
\* file removal failed) and the others were answered 404; no request meets a
\* missing key; a chat that passed the check used the record of its id.
C13_OneDeleteRemoves ==
    /\ \A assistant_id \in created :
          LET D == Answered("delete", assistant_id) IN
          D # {} =>
             /\ Cardinality({i \in D : Tasks[i].status # 404}) = 1
             /\ \A i \in D : Tasks[i].status \in {200, 500, 404}
             /\ \A i \in D : Tasks[i].status # 404 => Tasks[i].used.assistant_id = assistant_id
             /\ assistant_id \notin DOMAIN assistants_store
    /\ \A i \in DOMAIN Tasks : ~Tasks[i].key_error
    /\ ChatCompletesOnRecord

\* a delete submitted first and answered 200, a second delete of the same id
\* answered 404, and a chat submitted after them that ran before them
C13_RaceSeen ==
    /\ Len(Tasks) = 3
    /\ Tasks[1].op = "delete" /\ Tasks[1].pc = "done" /\ Tasks[1].status = 200
    /\ Tasks[2].op = "delete" /\ Tasks[2].pc = "done" /\ Tasks[2].status = 404
    /\ Tasks[3].op = "chat" /\ Tasks[3].pc = "done" /\ Tasks[3].status = 200
    /\ Tasks[1].id = Tasks[2].id /\ Tasks[2].id = Tasks[3].id

-----------------------------------------------------------------------------
(* C14 *)

\* the system instructions composed for the record of an id at its creation
ComposedAtCreation(assistant_id) ==
    LET c == assistants_store[assistant_id] IN
    BuildSystemInstructions(c.custom_instructions, c.enable_statistics,
                            c.enable_alerts, c.enable_recommendations)

\* a chat turn that reached the completion call put the instructions composed
\* at creation between the system tags of its prompt
ChatUsesComposedInstructions ==
    (resp'.op = "chat" /\ resp'.chat.trace.llm_calls = 1) =>
        LET prompt == resp'.chat.trace.prompt
            composed == ComposedAtCreation(resp'.id) IN
        /\ Len(prompt) >= Len(composed) + 4
        /\ SubSeq(prompt, 1, 2) = <<"<SYSTEM_INSTRUCTIONS>", NL>>
        /\ SubSeq(prompt, 3, Len(composed) + 2) = composed
        /\ SubSeq(prompt, Len(composed) + 3, Len(composed) + 4) = <<NL, "</SYSTEM_INSTRUCTIONS>">>

\* chat, info and list requests leave the registry as it was
ReadOnlyRequests ==
    resp'.op \in {"chat", "info", "list"} => assistants_store' = assistants_store

\* C14: chat, info and list requests are read-only; every chat turn uses the
\* system instructions composed at creation; the count returned by list is the
\* number of successful creates minus the number of successful deletes.
C14_ReadOnlyAndCount ==
    [][/\ ReadOnlyRequests
       /\ ChatUsesComposedInstructions
       /\ resp'.op = "list" =>
             resp'.count = Cardinality(created') - Cardinality(deleted')]_vars

\* the part of C14 that holds: read-only requests and the instructions of
\* every chat turn
C14_ReadOnlyPart ==
    [][ReadOnlyRequests /\ ChatUsesComposedInstructions]_vars

=============================================================================
